---- MODULE Spec2Model ----
(***************************************************************************)
(* State-machine model of the seismic_auction_house program               *)
(* (anchor-auction/programs/seismic-auction-house/src/lib.rs).            *)
(*                                                                         *)
(* Every instruction runs as one transaction: the accounts of its         *)
(* #[derive(Accounts)] struct are validated first, then the handler runs  *)
(* on a working copy of the accounts, and the working copy is written     *)
(* back only when the handler returns Ok (an Err discards it).  Two       *)
(* transactions that both take the same Auction account `mut` are         *)
(* serialized, so an instruction is one atomic step of the model.         *)
(***************************************************************************)
EXTENDS Integers, Sequences, FiniteSets, TLC

\* ------------------------------------------------------------------ bounds
\* settlement-currency units in the wallet of the first bidder, and of the
\* second, who cannot afford the highest bid
Funds == 200
ShortFunds == 130
\* asset units the seller's token account starts with: enough to deliver an
\* auction's token_size twice
Supply == 4

\* ------------------------------------------------------------ identities
\* A public key is a tuple; Option<Pubkey>::None is the empty tuple.
None == <<>>
Seller == <<"seller">>
Bidder1 == <<"bidder1">>
Bidder2 == <<"bidder2">>
\* the parties that can sign a transaction
Users == {Seller, Bidder1, Bidder2}
Sellers == {Seller}
Bidders == {Bidder1, Bidder2}
\* Pubkey::default(), the content of a freshly allocated account
ZeroKey == <<"default">>

TreasuryMint == "USDC"
AssetMints == {"nftA", "nftB"}
\* the mint auctioned where a single auction is explored
SoloMints == {"nftA"}

\* seeds = [b"auction", token_mint, authority]
AuctionAddress(token_mint, authority) == <<"auction", token_mint, authority>>
AuctionKeys == {AuctionAddress(m, s) : m \in AssetMints, s \in Sellers}
SoloKeys == {AuctionAddress(m, s) : m \in SoloMints, s \in Sellers}
\* seeds = [b"bid", auction, bidder]
BidAddress(auction, bidder) == <<"bid", auction, bidder>>

\* A token account (anchor_spl TokenAccount): its owner and mint are fixed,
\* its balance is the variable `balance`.
TokenAccount(owner, mint) == <<"token", owner, mint>>
OwnerOf(t) == t[2]
MintOf(t) == t[3]
\* a bidder's settlement-currency account
Wallet(u) == TokenAccount(u, TreasuryMint)
\* a settlement-currency account held by the auction's own address
Vault(a) == TokenAccount(a, TreasuryMint)
Wallets == {Wallet(u) : u \in Bidders}
Vaults == {Vault(a) : a \in AuctionKeys}
AssetAccounts == {TokenAccount(u, m) : u \in Users, m \in AssetMints}
\* a second token account a seller holds for a mint
SpareAccount(owner, mint) == <<"token", owner, mint, "spare">>
SpareAccounts == {SpareAccount(s, m) : s \in Sellers, m \in AssetMints}
TokenAccounts == Wallets \cup Vaults \cup AssetAccounts \cup SpareAccounts

\* ------------------------------------------------------------- constants
\* AuctionStatus as u8
Active == 0
Ended == 1
Cancelled == 2

\* values of the instruction arguments
TokenSizes == {2}
MinimumPrices == {100}
EndTimes == {60}
BidAmounts == {50, 120, 150, 200}
\* values Clock::get()?.unix_timestamp takes
Instants == {10, 20, 60, 61, 70}

\* ----------------------------------------------------------------- state
VARIABLES
    auctions,   \* Auction accounts: address -> Auction, for the created ones
    bids,       \* Bid accounts: address -> Bid, for the created ones
    balance,    \* token account -> amount
    now,        \* Clock::get()?.unix_timestamp
    last,       \* the last instruction processed and its result
    bidLog      \* history: per auction, the amounts of the successful bids

vars == <<auctions, bids, balance, now, last, bidLog>>

\* the accounts an instruction works on
Accounts == [auctions |-> auctions, bids |-> bids, balance |-> balance]

\* mutant: the write reaches every record of the map, not only the one at k
Put_Shared(f, k, v) == [x \in (DOMAIN f) \cup {k} |-> v]
\* a function extended or overwritten at one point
Put(f, k, v) == [x \in (DOMAIN f) \cup {k} |-> IF x = k THEN v ELSE f[x]]

Result(res, st) == [res |-> res, st |-> st]

\* ------------------------------------------------------ transaction frame
\* mutant: what the instruction wrote before it failed is kept
Commit_NoRollback(pre, out) == out.st
\* An instruction that returns Err is aborted: nothing it wrote to its
\* accounts is kept.  Only an Ok result commits the working copy.
Commit(pre, out) == IF out.res = "Ok" THEN out.st ELSE pre

\* token::transfer(CpiContext::new(token_program, Transfer {from, to,
\* authority}), amount): all or nothing.  The token program moves `amount`
\* only if the authority owns `from` and has signed, the mints agree and the
\* balance suffices.  CpiContext::new carries no signer seeds, so the
\* authority has signed only if it signed the transaction itself.
TransferAllowed(bal, from, to, authority, signers, amount) ==
    /\ authority \in signers
    /\ OwnerOf(from) = authority
    /\ MintOf(from) = MintOf(to)
    /\ bal[from] >= amount

Moved(bal, from, to, amount) ==
    IF from = to THEN bal
    ELSE [bal EXCEPT ![from] = @ - amount, ![to] = @ + amount]

\* ---------------------------------------------------------- create_auction
\* a freshly allocated (zeroed) Auction account, as `init` leaves it
ZeroAuction ==
    [authority |-> ZeroKey, token_mint |-> "", token_account |-> ZeroKey,
     treasury_mint |-> "", token_size |-> 0, minimum_price |-> 0,
     current_price |-> 0, end_time |-> 0, highest_bidder |-> None,
     status |-> 0]

\* #[derive(Accounts)] CreateAuction: init of the auction at its seeds, then
\* the constraints on token_account
CreateAuctionAccounts(w, authority, token_mint, token_account) ==
    LET a == AuctionAddress(token_mint, authority) IN
    IF a \in DOMAIN w.auctions THEN Result("AccountInUse", w)
    ELSE LET w1 == [w EXCEPT !.auctions = Put(@, a, ZeroAuction)] IN
         IF ~(/\ OwnerOf(token_account) = authority
              /\ MintOf(token_account) = token_mint)
         THEN Result("ConstraintRaw", w1)
         ELSE Result("Ok", w1)

create_auction(w, authority, token_mint, token_account, treasury_mint, token_size, minimum_price, end_time) ==
    LET a == AuctionAddress(token_mint, authority) IN
    Result("Ok", [w EXCEPT !.auctions = Put(@, a,
        [authority |-> authority,
         token_mint |-> token_mint,
         token_account |-> token_account,
         treasury_mint |-> treasury_mint,
         token_size |-> token_size,
         minimum_price |-> minimum_price,
         end_time |-> end_time,
         current_price |-> minimum_price,
         highest_bidder |-> None,
         status |-> Active])])

CreateAuctionTx(w, authority, token_mint, token_account, treasury_mint, token_size, minimum_price, end_time) ==
    LET acc == CreateAuctionAccounts(w, authority, token_mint, token_account) IN
    IF acc.res # "Ok" THEN acc
    ELSE create_auction(acc.st, authority, token_mint, token_account,
                        treasury_mint, token_size, minimum_price, end_time)

\* --------------------------------------------------------------- place_bid
\* a freshly allocated (zeroed) Bid account, as `init` leaves it
ZeroBid == [auction |-> ZeroKey, bidder |-> ZeroKey, amount |-> 0, timestamp |-> 0]

\* mutant: an existing Bid account is taken as it is (init_if_needed)
PlaceBidAccounts_IfNeeded(w, a, bidder, bidder_token_account, auction_token_account) ==
    IF a \notin DOMAIN w.auctions THEN Result("AccountNotInitialized", w)
    ELSE LET w1 == IF BidAddress(a, bidder) \in DOMAIN w.bids THEN w
                   ELSE [w EXCEPT !.bids = Put(@, BidAddress(a, bidder), ZeroBid)]
             auction == w.auctions[a] IN
         IF ~(/\ OwnerOf(bidder_token_account) = bidder
              /\ MintOf(bidder_token_account) = auction.treasury_mint)
         THEN Result("ConstraintRaw", w1)
         ELSE IF ~(MintOf(auction_token_account) = auction.treasury_mint)
         THEN Result("ConstraintRaw", w1)
         ELSE Result("Ok", w1)
\* #[derive(Accounts)] PlaceBid: the auction must exist, the Bid account is
\* created at its seeds (and so must not exist yet), then the constraints on
\* the two token accounts
PlaceBidAccounts(w, a, bidder, bidder_token_account, auction_token_account) ==
    IF a \notin DOMAIN w.auctions THEN Result("AccountNotInitialized", w)
    ELSE IF BidAddress(a, bidder) \in DOMAIN w.bids THEN Result("AccountInUse", w)
    ELSE LET w1 == [w EXCEPT !.bids = Put(@, BidAddress(a, bidder), ZeroBid)]
             auction == w.auctions[a] IN
         IF ~(/\ OwnerOf(bidder_token_account) = bidder
              /\ MintOf(bidder_token_account) = auction.treasury_mint)
         THEN Result("ConstraintRaw", w1)
         ELSE IF ~(MintOf(auction_token_account) = auction.treasury_mint)
         THEN Result("ConstraintRaw", w1)
         ELSE Result("Ok", w1)

\* mutant: the status is not checked
IsActive_Unchecked(auction) == TRUE
\* auction.status == AuctionStatus::Active as u8
IsActive(auction) == auction.status = Active
\* mutant: a bid at end_time itself is still in time
BeforeEnd_Inclusive(clock, auction) == clock <= auction.end_time
\* Clock::get()?.unix_timestamp < auction.end_time
BeforeEnd(clock, auction) == clock < auction.end_time
\* mutants: a bid equal to the current price is accepted; the bid is
\* compared with the minimum price; the bid is not compared at all
BeatsPrice_OrEqual(bid_amount, auction) == bid_amount >= auction.current_price
BeatsPrice_Minimum(bid_amount, auction) == bid_amount > auction.minimum_price
BeatsPrice_Unchecked(bid_amount, auction) == TRUE
\* bid_amount > auction.current_price
BeatsPrice(bid_amount, auction) == bid_amount > auction.current_price

\* mutant: the amount is checked before the status and the deadline
PlaceBidChecks_PriceFirst(auction, bid_amount, clock) ==
    IF ~BeatsPrice(bid_amount, auction) THEN "BidTooLow"
    ELSE IF ~IsActive(auction) THEN "AuctionNotActive"
    ELSE IF ~BeforeEnd(clock, auction) THEN "AuctionEnded"
    ELSE "Ok"
\* the three require! of place_bid, in their order
PlaceBidChecks(auction, bid_amount, clock) ==
    IF ~IsActive(auction) THEN "AuctionNotActive"
    ELSE IF ~BeforeEnd(clock, auction) THEN "AuctionEnded"
    ELSE IF ~BeatsPrice(bid_amount, auction) THEN "BidTooLow"
    ELSE "Ok"

\* mutant: the bidder is not recorded
AcceptBid_PriceOnly(auction, bidder, bid_amount) ==
    [auction EXCEPT !.current_price = bid_amount]
\* auction.current_price = bid_amount; auction.highest_bidder = Some(bidder)
AcceptBid(auction, bidder, bid_amount) ==
    [auction EXCEPT !.current_price = bid_amount, !.highest_bidder = bidder]

\* the Bid record written by a successful bid
NewBid(a, bidder, bid_amount, clock) ==
    [auction |-> a, bidder |-> bidder, amount |-> bid_amount,
     timestamp |-> clock]

place_bid(w, a, bidder, bidder_token_account, auction_token_account, bid_amount, clock) ==
    LET auction == w.auctions[a]
        checked == PlaceBidChecks(auction, bid_amount, clock) IN
    IF checked # "Ok" THEN Result(checked, w)
    ELSE IF ~TransferAllowed(w.balance, bidder_token_account,
                             auction_token_account, bidder, {bidder},
                             bid_amount)
    THEN Result("TokenError", w)
    ELSE Result("Ok",
        [auctions |-> Put(w.auctions, a, AcceptBid(auction, bidder, bid_amount)),
         bids |-> Put(w.bids, BidAddress(a, bidder),
                      NewBid(a, bidder, bid_amount, clock)),
         balance |-> Moved(w.balance, bidder_token_account,
                           auction_token_account, bid_amount)])

PlaceBidTx(w, a, bidder, bidder_token_account, auction_token_account, bid_amount, clock) ==
    LET acc == PlaceBidAccounts(w, a, bidder, bidder_token_account,
                                auction_token_account) IN
    IF acc.res # "Ok" THEN acc
    ELSE place_bid(acc.st, a, bidder, bidder_token_account,
                   auction_token_account, bid_amount, clock)

\* ------------------------------------------------------------- end_auction
\* #[derive(Accounts)] EndAuction: the constraints are evaluated before the
\* handler runs; auction.highest_bidder.unwrap() panics on None, which
\* aborts the instruction
EndAuctionAccounts(w, a, auction_token_account, bidder_token_account) ==
    IF a \notin DOMAIN w.auctions THEN Result("AccountNotInitialized", w)
    ELSE LET auction == w.auctions[a] IN
         IF ~(auction_token_account = auction.token_account)
         THEN Result("ConstraintRaw", w)
         ELSE IF auction.highest_bidder = None
         THEN Result("Panic", w)
         ELSE IF ~(/\ OwnerOf(bidder_token_account) = auction.highest_bidder
                   /\ MintOf(bidder_token_account) = auction.token_mint)
         THEN Result("ConstraintRaw", w)
         ELSE Result("Ok", w)

\* Clock::get()?.unix_timestamp >= auction.end_time
HasEnded(clock, auction) == clock >= auction.end_time

\* the two require! of end_auction, in their order
EndAuctionChecks(auction, clock) ==
    IF ~HasEnded(clock, auction) THEN "AuctionNotEnded"
    ELSE IF ~IsActive(auction) THEN "AuctionNotActive"
    ELSE "Ok"

end_auction(w, a, auction_token_account, bidder_token_account, auction_authority, signers, clock) ==
    LET auction == w.auctions[a]
        checked == EndAuctionChecks(auction, clock)
        w1 == [w EXCEPT !.auctions[a].status = Ended] IN
    IF checked # "Ok" THEN Result(checked, w)
    ELSE IF auction.highest_bidder = None THEN Result("Ok", w1)
    ELSE IF ~TransferAllowed(w1.balance, auction_token_account,
                             bidder_token_account, auction_authority,
                             signers, auction.token_size)
    THEN Result("TokenError", w1)
    ELSE Result("Ok",
        [w1 EXCEPT !.balance = Moved(@, auction_token_account,
                                     bidder_token_account, auction.token_size)])

EndAuctionTx(w, a, auction_token_account, bidder_token_account, auction_authority, signers, clock) ==
    LET acc == EndAuctionAccounts(w, a, auction_token_account,
                                  bidder_token_account) IN
    IF acc.res # "Ok" THEN acc
    ELSE end_auction(acc.st, a, auction_token_account, bidder_token_account,
                     auction_authority, signers, clock)

\* ---------------------------------------------------------- cancel_auction
\* #[derive(Accounts)] CancelAuction
CancelAuctionAccounts(w, a, auction_token_account, owner_token_account) ==
    IF a \notin DOMAIN w.auctions THEN Result("AccountNotInitialized", w)
    ELSE LET auction == w.auctions[a] IN
         IF ~(auction_token_account = auction.token_account)
         THEN Result("ConstraintRaw", w)
         ELSE IF ~(/\ OwnerOf(owner_token_account) = auction.authority
                   /\ MintOf(owner_token_account) = auction.token_mint)
         THEN Result("ConstraintRaw", w)
         ELSE Result("Ok", w)

\* auction.authority == ctx.accounts.authority.key()
IsAuthority(auction, authority) == auction.authority = authority

\* mutant: the status is not checked
CancelAuctionChecks_NoStatus(auction, authority) ==
    IF ~IsAuthority(auction, authority) THEN "Unauthorized" ELSE "Ok"
\* mutant: the status is checked before the caller
CancelAuctionChecks_StatusFirst(auction, authority) ==
    IF ~IsActive(auction) THEN "AuctionNotActive"
    ELSE IF ~IsAuthority(auction, authority) THEN "Unauthorized"
    ELSE "Ok"
\* the two require! of cancel_auction, in their order
CancelAuctionChecks(auction, authority) ==
    IF ~IsAuthority(auction, authority) THEN "Unauthorized"
    ELSE IF ~IsActive(auction) THEN "AuctionNotActive"
    ELSE "Ok"

cancel_auction(w, a, auction_token_account, owner_token_account, auction_authority, authority) ==
    LET auction == w.auctions[a]
        checked == CancelAuctionChecks(auction, authority)
        w1 == [w EXCEPT !.auctions[a].status = Cancelled] IN
    IF checked # "Ok" THEN Result(checked, w)
    ELSE IF ~TransferAllowed(w1.balance, auction_token_account,
                             owner_token_account, auction_authority,
                             {authority}, auction.token_size)
    THEN Result("TokenError", w1)
    ELSE Result("Ok",
        [w1 EXCEPT !.balance = Moved(@, auction_token_account,
                                     owner_token_account, auction.token_size)])

CancelAuctionTx(w, a, auction_token_account, owner_token_account, auction_authority, authority) ==
    LET acc == CancelAuctionAccounts(w, a, auction_token_account,
                                     owner_token_account) IN
    IF acc.res # "Ok" THEN acc
    ELSE cancel_auction(acc.st, a, auction_token_account, owner_token_account,
                        auction_authority, authority)

\* ---------------------------------------------------------------- actions
\* an instruction as the caller sees it: the signer, the bid amount (0 when
\* there is none), the account passed as auction_authority (None when there
\* is none) and the result
Call(op, a, caller, amount, authority, res) ==
    [op |-> op, auction |-> a, caller |-> caller, amount |-> amount,
     authority |-> authority, res |-> res]

Store(post) ==
    /\ auctions' = post.auctions
    /\ bids' = post.bids
    /\ balance' = post.balance

\* what a caller passes as the unchecked `auction_authority`: its own key,
\* which signed the transaction, or the auction's address, which did not
AuthorityChoices(a, caller) == {caller, a}
\* what a bidder passes as `auction_token_account`: the auction's vault, its
\* own wallet, or an account of another mint
PayeeChoices(a, bidder) ==
    {Vault(a), Wallet(bidder), TokenAccount(Seller, a[2])}
\* what a caller passes as the account receiving the asset
ReceiverChoices(a) == {TokenAccount(u, a[2]) : u \in Bidders}
OwnerChoices(a) ==
    {TokenAccount(Seller, a[2]), SpareAccount(Seller, a[2]),
     TokenAccount(Bidder1, a[2])}
\* what a caller passes as the auction's asset-holding account
HoldingChoices(a) == {TokenAccount(u, a[2]) : u \in {Seller, Bidder1}}

CreateAuction(authority, token_mint, token_account, token_size, minimum_price, end_time) ==
    LET out == CreateAuctionTx(Accounts, authority, token_mint, token_account,
                               TreasuryMint, token_size, minimum_price,
                               end_time) IN
    /\ Store(Commit(Accounts, out))
    /\ last' = Call("create_auction", AuctionAddress(token_mint, authority),
                    authority, 0, None, out.res)
    /\ UNCHANGED <<now, bidLog>>

PlaceBid(a, bidder, bidder_token_account, auction_token_account, bid_amount) ==
    LET out == PlaceBidTx(Accounts, a, bidder, bidder_token_account,
                          auction_token_account, bid_amount, now) IN
    /\ Store(Commit(Accounts, out))
    /\ last' = Call("place_bid", a, bidder, bid_amount, None, out.res)
    /\ bidLog' = IF out.res = "Ok"
                 THEN [bidLog EXCEPT ![a] = Append(@, bid_amount)]
                 ELSE bidLog
    /\ UNCHANGED now

EndAuction(a, caller, auction_token_account, bidder_token_account, auction_authority) ==
    LET out == EndAuctionTx(Accounts, a, auction_token_account,
                            bidder_token_account, auction_authority,
                            {caller}, now) IN
    /\ Store(Commit(Accounts, out))
    /\ last' = Call("end_auction", a, caller, 0, auction_authority, out.res)
    /\ UNCHANGED <<now, bidLog>>

CancelAuction(a, authority, auction_token_account, owner_token_account, auction_authority) ==
    LET out == CancelAuctionTx(Accounts, a, auction_token_account,
                               owner_token_account, auction_authority,
                               authority) IN
    /\ Store(Commit(Accounts, out))
    /\ last' = Call("cancel_auction", a, authority, 0, auction_authority, out.res)
    /\ UNCHANGED <<now, bidLog>>

\* the clock advances between instructions
Tick ==
    /\ \E t \in Instants : t > now /\ now' = t
    /\ last' = Call("none", None, None, 0, None, "Ok")
    /\ UNCHANGED <<auctions, bids, balance, bidLog>>

Init ==
    /\ auctions = <<>>
    /\ bids = <<>>
    /\ balance = [t \in TokenAccounts |->
                    IF MintOf(t) = TreasuryMint
                    THEN (IF OwnerOf(t) = Bidder1 THEN Funds
                          ELSE IF OwnerOf(t) = Bidder2 THEN ShortFunds
                          ELSE 0)
                    ELSE (IF t \in AssetAccounts /\ OwnerOf(t) \in Sellers
                          THEN Supply ELSE 0)]
    /\ now = 10
    /\ last = Call("none", None, None, 0, None, "Ok")
    /\ bidLog = [a \in AuctionKeys |-> <<>>]

Next ==
    \/ \E authority \in Sellers, token_mint \in SoloMints,
          token_account \in AssetAccounts, token_size \in TokenSizes,
          minimum_price \in MinimumPrices, end_time \in EndTimes :
          CreateAuction(authority, token_mint, token_account, token_size,
                        minimum_price, end_time)
    \/ \E a \in SoloKeys, bidder \in Bidders,
          bidder_token_account \in Wallets,
          bid_amount \in BidAmounts :
          \E auction_token_account \in PayeeChoices(a, bidder) :
          PlaceBid(a, bidder, bidder_token_account, auction_token_account,
                   bid_amount)
    \/ \E a \in SoloKeys, caller \in Users :
          \E auction_token_account \in HoldingChoices(a),
             bidder_token_account \in ReceiverChoices(a),
             auction_authority \in AuthorityChoices(a, caller) :
          EndAuction(a, caller, auction_token_account, bidder_token_account,
                     auction_authority)
    \/ \E a \in SoloKeys, authority \in Users :
          \E auction_token_account \in HoldingChoices(a),
             owner_token_account \in OwnerChoices(a),
             auction_authority \in AuthorityChoices(a, authority) :
          CancelAuction(a, authority, auction_token_account,
                        owner_token_account, auction_authority)
    \/ Tick

Spec == Init /\ [][Next]_vars

\* ================================================================ claims
Terminal == {Ended, Cancelled}
\* results of the account validation that precedes a handler
AccountErrors == {"AccountNotInitialized", "AccountInUse", "ConstraintRaw", "Panic"}
\* AuctionHouseError
ProgramErrors == {"AuctionNotActive", "AuctionEnded", "AuctionNotEnded",
                  "BidTooLow", "Unauthorized"}
Instructions == {"place_bid", "end_auction", "cancel_auction"}

\* C1: once an auction's status is Ended or Cancelled, no step (place_bid,
\* end_auction, cancel_auction by any caller, at any time, with any
\* arguments) changes its status, current_price or highest_bidder.
C1_TerminalImmutable ==
    [][\A a \in DOMAIN auctions :
          auctions[a].status \in Terminal =>
              /\ auctions'[a].status = auctions[a].status
              /\ auctions'[a].current_price = auctions[a].current_price
              /\ auctions'[a].highest_bidder = auctions[a].highest_bidder]_vars

\* a bid that beats the price, before the deadline, was just rejected by a
\* cancelled auction
C1_Witness ==
    /\ last.op = "place_bid"
    /\ last.res = "AuctionNotActive"
    /\ last.auction \in DOMAIN auctions
    /\ auctions[last.auction].status = Cancelled
    /\ last.amount > auctions[last.auction].current_price
    /\ now < auctions[last.auction].end_time

\* C2: when a place_bid has just succeeded, a place_bid by another bidder
\* with the same amount on the same auction at the same time (which passes
\* the account validation, as it would have alone) finds the updated
\* current_price and fails with BidTooLow: of two racing equal bids, in
\* either order, exactly one succeeds.
C2_RacingBids ==
    [][(/\ last.op = "place_bid" /\ last.res = "Ok"
        /\ last'.op = "place_bid"
        /\ last'.auction = last.auction
        /\ last'.amount = last.amount
        /\ last'.caller # last.caller
        /\ last'.res \notin AccountErrors)
       => /\ auctions[last.auction].current_price = last.amount
          /\ last'.res = "BidTooLow"
          /\ UNCHANGED <<auctions, bids, balance>>]_vars

\* the loser of a race: its bid equals the price the other bidder set at
\* this same instant
C2_Witness ==
    /\ last.op = "place_bid"
    /\ last.res = "BidTooLow"
    /\ last.auction \in DOMAIN auctions
    /\ LET auction == auctions[last.auction] IN
       /\ auction.highest_bidder \notin {None, last.caller}
       /\ auction.current_price = last.amount
       /\ bids[BidAddress(last.auction, auction.highest_bidder)].timestamp = now
       /\ BidAddress(last.auction, last.caller) \notin DOMAIN bids

\* C3: the amounts of the successful bids on an auction form a strictly
\* increasing sequence that starts above the price the auction was created
\* with and ends at current_price: every successful place_bid raised
\* current_price.
C3_BidsIncrease ==
    \A a \in DOMAIN auctions :
        LET log == bidLog[a] IN
        /\ \A i \in 1..(Len(log) - 1) : log[i] < log[i + 1]
        /\ Len(log) > 0 =>
              /\ log[1] > auctions[a].minimum_price
              /\ log[Len(log)] = auctions[a].current_price

C3_Witness ==
    \E a \in DOMAIN auctions :
        /\ Len(bidLog[a]) >= 2
        /\ last.op = "place_bid" /\ last.res = "Ok" /\ last.auction = a

\* C4: every auction has current_price >= minimum_price.
C4_PriceAtLeastMinimum ==
    \A a \in DOMAIN auctions :
        auctions[a].current_price >= auctions[a].minimum_price

\* a bid below the minimum price was rejected, and one above it accepted
C4_Witness ==
    /\ last.op = "place_bid"
    /\ last.res = "BidTooLow"
    /\ last.auction \in DOMAIN auctions
    /\ last.amount < auctions[last.auction].minimum_price
    /\ auctions[last.auction].current_price > auctions[last.auction].minimum_price

\* C5: highest_bidder is absent exactly when no place_bid on the auction
\* has succeeded (no bid logged, no Bid record), and no step resets a
\* present highest_bidder to absent.
C5_BidderIffBid ==
    /\ [](\A a \in DOMAIN auctions :
            /\ (auctions[a].highest_bidder = None) <=> (bidLog[a] = <<>>)
            /\ (auctions[a].highest_bidder = None)
                  <=> (\A u \in Users : BidAddress(a, u) \notin DOMAIN bids))
    /\ [][\A a \in DOMAIN auctions :
            auctions[a].highest_bidder # None
                => auctions'[a].highest_bidder # None]_vars

\* an auction that was bid on and then ended or cancelled keeps its bidder
C5_Witness ==
    \E a \in DOMAIN auctions :
        /\ auctions[a].status \in Terminal
        /\ auctions[a].highest_bidder # None
        /\ last.op \in {"end_auction", "cancel_auction"}
        /\ last.res = "Ok"

\* C6 as stated: every place_bid call (given token accounts that satisfy
\* the constraints of PlaceBid) on an auction that is not Active fails
\* AuctionNotActive; otherwise at or after end_time it fails AuctionEnded;
\* otherwise with bid_amount <= current_price it fails BidTooLow.
C6_ChecksDecideEveryCall ==
    [][(/\ last'.op = "place_bid"
        /\ last'.auction \in DOMAIN auctions
        /\ last'.res # "ConstraintRaw") =>
          LET auction == auctions[last'.auction] IN
          IF auction.status # Active THEN last'.res = "AuctionNotActive"
          ELSE IF now >= auction.end_time THEN last'.res = "AuctionEnded"
          ELSE IF last'.amount <= auction.current_price
               THEN last'.res = "BidTooLow"
          ELSE TRUE]_vars

\* C6, amended: a place_bid call that passes the account validation (the
\* bidder has no Bid record on the auction yet, the token accounts satisfy
\* the constraints) fails AuctionNotActive if the status is not Active;
\* otherwise AuctionEnded if the time is >= end_time; otherwise BidTooLow if
\* bid_amount <= current_price; and otherwise none of the three.
C6_ChecksInOrder ==
    [][(/\ last'.op = "place_bid"
        /\ last'.auction \in DOMAIN auctions
        /\ last'.res \notin AccountErrors) =>
          LET auction == auctions[last'.auction] IN
          IF auction.status # Active THEN last'.res = "AuctionNotActive"
          ELSE IF now >= auction.end_time THEN last'.res = "AuctionEnded"
          ELSE IF last'.amount <= auction.current_price
               THEN last'.res = "BidTooLow"
          ELSE last'.res \in {"Ok", "TokenError"}]_vars

\* all three checks would fail, and the first one is reported
C6_Witness ==
    /\ last.op = "place_bid"
    /\ last.res = "AuctionNotActive"
    /\ last.auction \in DOMAIN auctions
    /\ now >= auctions[last.auction].end_time
    /\ last.amount <= auctions[last.auction].current_price

\* C7: an instruction whose transfer fails changes no record and no
\* balance: a place_bid leaves current_price and highest_bidder as they
\* were and creates no Bid record, an end_auction or cancel_auction leaves
\* the status Active.
C7_TransferFailureAtomic ==
    [][(last'.op \in Instructions /\ last'.res = "TokenError") =>
          /\ UNCHANGED <<auctions, bids, balance, bidLog>>
          /\ last'.op \in {"end_auction", "cancel_auction"}
                => auctions'[last'.auction].status = Active]_vars

\* an end_auction, given the auction's derived authority, that passed both
\* checks and whose transfer failed
C7_Witness ==
    /\ last.op = "end_auction"
    /\ last.res = "TokenError"
    /\ last.authority = last.auction
    /\ auctions[last.auction].status = Active
    /\ auctions[last.auction].highest_bidder # None
    /\ now >= auctions[last.auction].end_time

\* C8: an instruction that fails with one of the program's five errors
\* leaves every Auction, every Bid record (none is created) and every
\* balance as it was.
C8_FailFast ==
    [][(last'.op \in Instructions /\ last'.res \in ProgramErrors) =>
          UNCHANGED <<auctions, bids, balance, bidLog>>]_vars

\* a rejected first bid of a bidder: the Bid account that the account
\* validation allocated for it does not exist
C8_Witness ==
    /\ last.op = "place_bid"
    /\ last.res \in ProgramErrors
    /\ last.auction \in DOMAIN auctions
    /\ BidAddress(last.auction, last.caller) \notin DOMAIN bids

\* C9 as stated: end_auction on an Active auction without bids, at a time
\* >= end_time, given the auction's asset-holding account, succeeds, sets
\* the status to Ended and moves no asset.
C9_EndWithoutBids ==
    [][(/\ last'.op = "end_auction"
        /\ last'.auction \in DOMAIN auctions
        /\ last'.res # "ConstraintRaw") =>
          LET auction == auctions[last'.auction] IN
          (/\ auction.status = Active
           /\ auction.highest_bidder = None
           /\ now >= auction.end_time) =>
              /\ last'.res = "Ok"
              /\ auctions'[last'.auction].status = Ended
              /\ balance' = balance]_vars

\* C10 as stated: end_auction on an Active auction whose highest bidder is
\* B, at a time >= end_time, given the auction's asset-holding account and
\* an asset account of B, succeeds, sets the status to Ended and moves
\* exactly token_size from the asset-holding account to an account of B.
C10_EndWithWinner ==
    [][(/\ last'.op = "end_auction"
        /\ last'.auction \in DOMAIN auctions
        /\ last'.res # "ConstraintRaw") =>
          LET auction == auctions[last'.auction] IN
          (/\ auction.status = Active
           /\ auction.highest_bidder # None
           /\ now >= auction.end_time) =>
              /\ last'.res = "Ok"
              /\ auctions'[last'.auction].status = Ended
              /\ \E t \in TokenAccounts :
                    /\ OwnerOf(t) = auction.highest_bidder
                    /\ t # auction.token_account
                    /\ balance' = Moved(balance, auction.token_account, t,
                                        auction.token_size)]_vars

\* C11 as stated: every end_auction call (given token accounts that satisfy
\* the constraints of EndAuction) at a time < end_time fails AuctionNotEnded
\* whatever the status; at a time >= end_time on an auction that is not
\* Active it fails AuctionNotActive; and at every instant exactly one of the
\* deadline checks of place_bid and end_auction passes.
C11_DeadlineBeforeStatus ==
    [][(/\ last'.op = "end_auction"
        /\ last'.auction \in DOMAIN auctions
        /\ last'.res # "ConstraintRaw") =>
          LET auction == auctions[last'.auction] IN
          /\ BeforeEnd(now, auction) <=> ~HasEnded(now, auction)
          /\ IF now < auction.end_time THEN last'.res = "AuctionNotEnded"
             ELSE IF auction.status # Active
                  THEN last'.res = "AuctionNotActive"
             ELSE TRUE]_vars

\* C12: a cancel_auction whose caller is not auction.authority fails and
\* leaves every record and every balance as it was (the status is unchanged,
\* no asset moves); given token accounts that satisfy the constraints of
\* CancelAuction the error is Unauthorized, whatever the status of the
\* auction, Ended and Cancelled included.
C12_NonAuthorityCancel ==
    [][(/\ last'.op = "cancel_auction"
        /\ last'.auction \in DOMAIN auctions
        /\ last'.caller # auctions[last'.auction].authority) =>
          /\ last'.res # "Ok"
          /\ UNCHANGED <<auctions, bids, balance, bidLog>>
          /\ last'.res # "ConstraintRaw" => last'.res = "Unauthorized"]_vars

\* a caller other than the authority was refused as Unauthorized on an
\* auction that is no longer Active
C12_Witness ==
    /\ last.op = "cancel_auction"
    /\ last.res = "Unauthorized"
    /\ last.auction \in DOMAIN auctions
    /\ last.caller # auctions[last.auction].authority
    /\ auctions[last.auction].status \in Terminal

\* C13 as stated: a cancel_auction by the auction's authority (given token
\* accounts that satisfy the constraints of CancelAuction) on an Active
\* auction succeeds, sets the status to Cancelled and moves exactly
\* token_size from the asset-holding account to an account of the seller;
\* on a Cancelled auction it fails AuctionNotActive and moves nothing.
C13_CancelByAuthority ==
    [][(/\ last'.op = "cancel_auction"
        /\ last'.auction \in DOMAIN auctions
        /\ last'.caller = auctions[last'.auction].authority
        /\ last'.res # "ConstraintRaw") =>
          LET auction == auctions[last'.auction] IN
          /\ auction.status = Active =>
                /\ last'.res = "Ok"
                /\ auctions'[last'.auction].status = Cancelled
                /\ \E t \in TokenAccounts :
                      /\ OwnerOf(t) = auction.authority
                      /\ balance' = Moved(balance, auction.token_account, t,
                                          auction.token_size)
          /\ auction.status = Cancelled =>
                /\ last'.res = "AuctionNotActive"
                /\ balance' = balance]_vars

\* C14: a Bid record lives at the address derived from its auction and its
\* bidder, so there is at most one per (auction, bidder); no step changes or
\* removes an existing Bid record; and a place_bid by a bidder who already
\* has a Bid record on the auction is rejected and changes no state,
\* whatever its amount and whatever the status and the time.
C14_OneBidPerBidder ==
    /\ [](\A b \in DOMAIN bids :
            b = BidAddress(bids[b].auction, bids[b].bidder))
    /\ [][/\ \A b \in DOMAIN bids : b \in DOMAIN bids' /\ bids'[b] = bids[b]
          /\ (/\ last'.op = "place_bid"
              /\ BidAddress(last'.auction, last'.caller) \in DOMAIN bids)
                => /\ last'.res # "Ok"
                   /\ UNCHANGED <<auctions, bids, balance, bidLog>>]_vars

\* a second bid of the same bidder that beats the price of an Active,
\* unexpired auction was rejected
C14_Witness ==
    /\ last.op = "place_bid"
    /\ last.res = "AccountInUse"
    /\ BidAddress(last.auction, last.caller) \in DOMAIN bids
    /\ auctions[last.auction].status = Active
    /\ now < auctions[last.auction].end_time
    /\ last.amount > auctions[last.auction].current_price

\* the sum of a sequence of amounts
RECURSIVE SumSeq(_)
SumSeq(s) == IF s = <<>> THEN 0 ELSE Head(s) + SumSeq(Tail(s))

\* C15 as stated: no step decreases the settlement currency escrowed for an
\* auction or increases a bidder's wallet, and in every state the currency
\* escrowed for an auction is the sum of the amounts of all successful bids
\* on it.
C15_EscrowKeepsAllBids ==
    /\ [](\A a \in DOMAIN auctions : balance[Vault(a)] = SumSeq(bidLog[a]))
    /\ [][/\ \A a \in AuctionKeys : balance'[Vault(a)] >= balance[Vault(a)]
          /\ \A u \in Bidders : balance'[Wallet(u)] <= balance[Wallet(u)]]_vars

\* ------------------------------------------------------- two auctions
\* The seller auctions both mints.  The instructions are those of Spec,
\* given the accounts a client would pass or the auction's derived address
\* as authority, with two bid amounts that one wallet cannot pay together.
PairBidAmounts == {120, 150}

NextTwo ==
    \/ \E authority \in Sellers, token_mint \in AssetMints,
          token_size \in TokenSizes, minimum_price \in MinimumPrices,
          end_time \in EndTimes :
          CreateAuction(authority, token_mint,
                        TokenAccount(authority, token_mint), token_size,
                        minimum_price, end_time)
    \/ \E a \in AuctionKeys, bidder \in Bidders,
          bid_amount \in PairBidAmounts :
          PlaceBid(a, bidder, Wallet(bidder), Vault(a), bid_amount)
    \/ \E a \in AuctionKeys, caller \in Sellers :
          \E auction_authority \in AuthorityChoices(a, caller) :
          EndAuction(a, caller, TokenAccount(Seller, a[2]),
                     TokenAccount(Bidder1, a[2]), auction_authority)
    \/ \E a \in AuctionKeys, authority \in Sellers :
          \E auction_authority \in AuthorityChoices(a, authority) :
          CancelAuction(a, authority, TokenAccount(Seller, a[2]),
                        SpareAccount(Seller, a[2]), auction_authority)
    \/ Tick

SpecTwo == Init /\ [][NextTwo]_vars

\* An instruction with the accounts and arguments it is invoked with: the
\* auction, the signer, the token accounts its transfer debits (source) and
\* credits (target), the transfer authority and the bid amount.
Invocation(op, a, signer, source, target, authority, amount) ==
    [op |-> op, auction |-> a, signer |-> signer, source |-> source,
     target |-> target, authority |-> authority, amount |-> amount]

\* the accounts as the instruction leaves them
Run(w, o, clock) ==
    Commit(w,
        CASE o.op = "create_auction" ->
               CreateAuctionTx(w, o.signer, o.auction[2], o.source,
                               TreasuryMint, 2, 100, 60)
          [] o.op = "place_bid" ->
               PlaceBidTx(w, o.auction, o.signer, o.source, o.target,
                          o.amount, clock)
          [] o.op = "end_auction" ->
               EndAuctionTx(w, o.auction, o.source, o.target, o.authority,
                            {o.signer}, clock)
          [] o.op = "cancel_auction" ->
               CancelAuctionTx(w, o.auction, o.source, o.target,
                               o.authority, o.signer))

\* the invocations on an auction that are compared in both orders
InvocationsOn(a) ==
    {Invocation("create_auction", a, Seller, TokenAccount(Seller, a[2]),
                None, None, 0)}
    \cup {Invocation("place_bid", a, u, Wallet(u), Vault(a), None, n) :
            u \in Bidders, n \in PairBidAmounts}
    \cup {Invocation("place_bid", a, Bidder1, Wallet(Bidder1),
                     Wallet(Bidder1), None, n) : n \in PairBidAmounts}
    \cup {Invocation("end_auction", a, Seller, TokenAccount(Seller, a[2]),
                     TokenAccount(u, a[2]), x, 0) :
            u \in Bidders, x \in {Seller, a}}
    \cup {Invocation("cancel_auction", a, u, TokenAccount(Seller, a[2]),
                     SpareAccount(Seller, a[2]), x, 0) :
            u \in {Seller, Bidder1}, x \in {Seller, a}}

\* the token accounts the transfer of an invocation debits or credits
Touched(o) == {o.source, o.target} \ {None}

\* the Auction and Bid records are the same whichever of the two runs first
SameRecords(w, oA, oB, clock) ==
    LET wAB == Run(Run(w, oA, clock), oB, clock)
        wBA == Run(Run(w, oB, clock), oA, clock) IN
    /\ wAB.auctions = wBA.auctions
    /\ wAB.bids = wBA.bids

\* a step on one auction leaves the records of every other auction alone
OthersUnchanged ==
    \A b \in DOMAIN auctions :
        b # last'.auction =>
            /\ auctions'[b] = auctions[b]
            /\ \A u \in Users :
                  /\ (BidAddress(b, u) \in DOMAIN bids')
                        <=> (BidAddress(b, u) \in DOMAIN bids)
                  /\ BidAddress(b, u) \in DOMAIN bids
                        => bids'[BidAddress(b, u)] = bids[BidAddress(b, u)]

\* C16 as stated: an instruction on auction A leaves every Auction record
\* and every Bid record of every other auction unchanged, and any two
\* instructions on distinct auctions leave the same Auction and Bid records
\* in either order.
C16_Independent ==
    /\ [](\A a \in SoloKeys, b \in AuctionKeys :
            a # b => \A oA \in InvocationsOn(a), oB \in InvocationsOn(b) :
                        SameRecords(Accounts, oA, oB, now))
    /\ [][last'.op \in Instructions \cup {"create_auction"}
            => OthersUnchanged]_vars

\* C16, amended: an instruction on auction A leaves every Auction record
\* and every Bid record of every other auction unchanged, and two
\* instructions on distinct auctions whose transfers debit or credit no
\* common token account leave the same Auction and Bid records in either
\* order.
C16_IndependentApart ==
    /\ [](\A a \in SoloKeys, b \in AuctionKeys :
            a # b => \A oA \in InvocationsOn(a), oB \in InvocationsOn(b) :
                        Touched(oA) \cap Touched(oB) = {}
                            => SameRecords(Accounts, oA, oB, now))
    /\ [][last'.op \in Instructions \cup {"create_auction"}
            => OthersUnchanged]_vars

\* a bid has just succeeded on one auction while the other auction has a
\* highest bidder and Bid records of its own
C16_Witness ==
    /\ last.op = "place_bid"
    /\ last.res = "Ok"
    /\ \E b \in DOMAIN auctions :
          /\ b # last.auction
          /\ auctions[b].highest_bidder # None
          /\ auctions[b].current_price # auctions[last.auction].current_price

\* C17 as stated: every successful place_bid on an auction debits
\* bid_amount from the bidder's account and credits it to the one escrow
\* account that the auction determines; no successful bid pays into any
\* other account.
C17_BidsPaidToEscrow ==
    [][(last'.op = "place_bid" /\ last'.res = "Ok") =>
          /\ balance'[Wallet(last'.caller)]
                = balance[Wallet(last'.caller)] - last'.amount
          /\ balance'[Vault(last'.auction)]
                = balance[Vault(last'.auction)] + last'.amount]_vars

\* C18: whenever an auction has a highest_bidder, the Bid record of that
\* auction and bidder exists and its amount is the auction's current_price;
\* no Bid record of the auction has a larger amount; and the timestamp of
\* every Bid record is strictly less than the end_time of its auction.
C18_WinningBidRecorded ==
    \A a \in DOMAIN auctions :
        LET auction == auctions[a] IN
        /\ auction.highest_bidder # None =>
              /\ BidAddress(a, auction.highest_bidder) \in DOMAIN bids
              /\ bids[BidAddress(a, auction.highest_bidder)].amount
                    = auction.current_price
        /\ \A b \in DOMAIN bids :
              bids[b].auction = a =>
                  /\ bids[b].amount <= auction.current_price
                  /\ bids[b].timestamp < auction.end_time

\* an auction past its end_time with the Bid records of two bidders, the
\* earlier of them outbid
C18_Witness ==
    \E a \in DOMAIN auctions :
        /\ now >= auctions[a].end_time
        /\ BidAddress(a, Bidder1) \in DOMAIN bids
        /\ BidAddress(a, Bidder2) \in DOMAIN bids
        /\ bids[BidAddress(a, Bidder2)].amount < auctions[a].current_price

\* C19: the balance of an auction's asset-holding account changes only in a
\* successful end_auction or cancel_auction on that auction, which finds the
\* auction Active, leaves it Ended or Cancelled, takes exactly token_size
\* out of the account and credits it to an account of the highest bidder
\* (end_auction) or of the seller (cancel_auction); so the account is never
\* short of more than one token_size, and only once the auction is Ended or
\* Cancelled.
C19_AssetMovedOnce ==
    /\ [](\A a \in DOMAIN auctions :
            LET auction == auctions[a] IN
            /\ balance[auction.token_account]
                  \in {Supply, Supply - auction.token_size}
            /\ balance[auction.token_account] < Supply
                  => auction.status \in Terminal)
    /\ [][\A a \in DOMAIN auctions :
            LET auction == auctions[a]
                held == auction.token_account IN
            balance'[held] # balance[held] =>
                /\ last'.op \in {"end_auction", "cancel_auction"}
                /\ last'.res = "Ok"
                /\ last'.auction = a
                /\ auction.status = Active
                /\ auctions'[a].status
                      = (IF last'.op = "end_auction" THEN Ended ELSE Cancelled)
                /\ \E t \in TokenAccounts :
                      /\ OwnerOf(t) = (IF last'.op = "end_auction"
                                       THEN auction.highest_bidder
                                       ELSE auction.authority)
                      /\ t # held
                      /\ balance' = Moved(balance, held, t,
                                          auction.token_size)]_vars

\* after the asset left the holding account, an instruction of the seller
\* that would move it again was refused
C19_Witness ==
    /\ last.op \in {"end_auction", "cancel_auction"}
    /\ last.res = "AuctionNotActive"
    /\ last.caller = Seller
    /\ last.authority = Seller
    /\ LET auction == auctions[last.auction] IN
       /\ balance[auction.token_account] = Supply - auction.token_size
       /\ balance[auction.token_account] >= auction.token_size

\* C20 as stated: the seller's cancel_auction (given token accounts that
\* satisfy the constraints of CancelAuction) succeeds on every Active
\* auction, before or after end_time, with or without a highest bidder, and
\* leaves it Cancelled with its price and highest bidder as they were.
C20_CancelAnyTime ==
    [][(/\ last'.op = "cancel_auction"
        /\ last'.auction \in DOMAIN auctions
        /\ last'.caller = auctions[last'.auction].authority
        /\ last'.res # "ConstraintRaw"
        /\ auctions[last'.auction].status = Active) =>
          /\ last'.res = "Ok"
          /\ auctions'[last'.auction]
                = [auctions[last'.auction] EXCEPT !.status = Cancelled]]_vars
====
